---- MODULE Spec2Model ----
(***************************************************************************)
(* slog-gorm: the gorm logger that routes query traces and free-form log   *)
(* calls to a slog handler.  The model follows logger.go: New builds the   *)
(* logger value from the defaults and a list of options, and Trace, Info,  *)
(* Warn, Error and LogMode are the calls gorm makes on it.                 *)
(***************************************************************************)
EXTENDS Integers, Sequences, FiniteSets, TLC

VARIABLES
    l,        \* the logger value (struct logger)
    pc,       \* "options": New is applying options; "ready": the logger is
              \* built and idle; "called": a call has run and not yet returned
    nopts,    \* number of options New has applied so far
    registered, \* the attribute names in the order WithContextValue got them
    call,     \* the last call made on the logger (or the last option New
              \* applied) and its arguments
    out       \* what that call did: branch taken, provider calls, records, fault

vars == <<l, pc, nopts, registered, call, out>>

----------------------------------------------------------------------------
(* Bounds of the model *)

MaxOptions == 3      \* options passed to New
MaxElapsed == 2      \* elapsed times are 0..MaxElapsed
MaxThreshold == 1    \* slow thresholds are 0..MaxThreshold

----------------------------------------------------------------------------
(* Constants of the program *)

ErrorLogType == "sql_error"
SlowQueryLogType == "slow_query"
DefaultLogType == "default"
LogTypes == {ErrorLogType, SlowQueryLogType, DefaultLogType}

SourceField == "file"
ErrorField == "error"
QueryField == "query"
DurationField == "duration"
SlowQueryField == "slow_query"
RowsField == "rows"

LevelInfo == 0
LevelWarn == 4
LevelError == 8
CustomLogLevel == 42
LogLevels == {LevelInfo, LevelWarn, LevelError, CustomLogLevel}

----------------------------------------------------------------------------
(* Errors.  An error is known by its name; ErrorText is err.Error() as a   *)
(* sequence of text pieces and IsRecordNotFound is                         *)
(* errors.Is(err, gorm.ErrRecordNotFound).                                 *)

NilErr == "<nil>"
ErrRecordNotFound == "ErrRecordNotFound"
WrappedNotFound == "WrappedNotFound"
AwesomeError == "AwesomeError"
VerbError == "VerbError"
Errors == {ErrRecordNotFound, WrappedNotFound, AwesomeError, VerbError}

IsRecordNotFound(err) == err \in {ErrRecordNotFound, WrappedNotFound}

----------------------------------------------------------------------------
(* Values handed to fmt.Sprintf and to slog: every value is a record       *)
(* [key, kind, value]; a bare (non-attribute) value has the empty key.     *)

NoArg == [key |-> "", kind |-> "none", value |-> ""]
slogAny(k, v) == [key |-> k, kind |-> "any", value |-> v]
slogString(k, v) == [key |-> k, kind |-> "string", value |-> v]
slogDuration(k, d) == [key |-> k, kind |-> "duration", value |-> ToString(d) \o "s"]
slogInt64(k, n) == [key |-> k, kind |-> "int64", value |-> ToString(n)]
slogBool(k, b) == [key |-> k, kind |-> "bool", value |-> IF b THEN "true" ELSE "false"]

(* A format or a message is a sequence of pieces [tok, arg]: literal text, *)
(* the verb, or what Sprintf wrote for an argument.                        *)
Verb == "%v"
Lit(s) == [tok |-> s, arg |-> NoArg]
VerbTok == Lit(Verb)
Filled(a) == [tok |-> Verb, arg |-> a]
Missing == Lit("%!v(MISSING)")
Extra(a) == [tok |-> "%!(EXTRA)", arg |-> a]

RECURSIVE ExtraArgs(_)
ExtraArgs(args) ==
    IF args = <<>> THEN <<>>
    ELSE <<Extra(Head(args))>> \o ExtraArgs(Tail(args))

RECURSIVE Sprintf(_, _)
Sprintf(format, args) ==
    IF format = <<>> THEN ExtraArgs(args)
    ELSE IF Head(format) = VerbTok
         THEN IF args = <<>>
              THEN <<Missing>> \o Sprintf(Tail(format), <<>>)
              ELSE <<Filled(Head(args))>> \o Sprintf(Tail(format), Tail(args))
         ELSE <<Head(format)>> \o Sprintf(Tail(format), args)

(* A message used again as a format: what Sprintf wrote for an argument is *)
(* plain text from then on (a duration or a level holds no verb).          *)
RECURSIVE AsFormat(_)
AsFormat(msg) ==
    IF msg = <<>> THEN <<>>
    ELSE (IF Head(msg).arg = NoArg THEN <<Head(msg)>> ELSE <<Lit(Head(msg).arg.value)>>)
         \o AsFormat(Tail(msg))

ErrorText(err) ==
    CASE err = ErrRecordNotFound -> <<Lit("record not found")>>
      [] err = WrappedNotFound -> <<Lit("find user: record not found")>>
      [] err = AwesomeError -> <<Lit("awesome error")>>
      [] err = VerbError -> <<Lit("bad value "), VerbTok>>
      [] OTHER -> <<>>

----------------------------------------------------------------------------
(* Contexts.  A context is nil or carries values under keys; Value returns *)
(* NoValue (nil) for a key the context does not carry.                     *)

CtxKeys == {"ctxKey", "ctxKey2"}
AttrNames == {"attrKey", "attrKey2"}
NoValue == "<nil>"
CtxValueOf == [k \in CtxKeys |-> IF k = "ctxKey" THEN "ctxVal" ELSE "ctxVal2"]

Background == [nil |-> FALSE, vals |-> [k \in CtxKeys |-> NoValue]]
NilCtx == [nil |-> TRUE, vals |-> [k \in CtxKeys |-> NoValue]]
Contexts ==
    {NilCtx} \cup
    {[nil |-> FALSE, vals |-> f] :
        f \in {g \in [CtxKeys -> {NoValue, "ctxVal", "ctxVal2"}] :
                 \A k \in CtxKeys : g[k] \in {NoValue, CtxValueOf[k]}}}

Value(ctx, key) == IF key \in DOMAIN ctx.vals THEN ctx.vals[key] ELSE NoValue

----------------------------------------------------------------------------
(* The sink: a slog.Handler.  The handlers of the tests are the dummy      *)
(* handler (every level enabled) and a text handler with a minimum level.  *)

NilHandler == [kind |-> "nil", minLevel |-> 0]
DefaultHandler == [kind |-> "default", minLevel |-> LevelInfo]
DummyHandler == [kind |-> "dummy", minLevel |-> 0]
TextHandler(level) == [kind |-> "text", minLevel |-> level]
Handlers == {DummyHandler, TextHandler(LevelWarn), TextHandler(CustomLogLevel)}

Enabled(h, level) == h.kind = "dummy" \/ level >= h.minLevel

----------------------------------------------------------------------------
(* The provider of the tests: fc() returns the query and the row count.    *)

FcSQL == "SELECT * FROM user"
FcRows == 1
FileWithLineNum == "caller.go:42"

----------------------------------------------------------------------------
(* New: the defaults, then the options one by one, then the default sink.  *)

EmptyKeys == [n \in {} |-> ""]

Defaults ==
    [sloggerHandler |-> NilHandler,
     ignoreTrace |-> FALSE,
     ignoreRecordNotFoundError |-> TRUE,
     traceAll |-> FALSE,
     slowThreshold |-> 0,
     logLevel |-> [t \in LogTypes |->
                     CASE t = ErrorLogType -> LevelError
                       [] t = SlowQueryLogType -> LevelWarn
                       [] OTHER -> LevelInfo],
     contextKeys |-> EmptyKeys,
     sourceField |-> SourceField,
     errorField |-> ErrorField]

NoCall ==
    [op |-> "none", ctx |-> Background, elapsed |-> 0, err |-> NilErr,
     level |-> 0, format |-> <<>>, args |-> <<>>,
     lType |-> "", handler |-> NilHandler]
NoOut == [branch |-> "none", fcCalls |-> 0, handled |-> <<>>, fault |-> FALSE]

Init ==
    /\ l = Defaults
    /\ pc = "options"
    /\ nopts = 0
    /\ registered = <<>>
    /\ call = NoCall
    /\ out = NoOut

WithTraceAll(lg) == [lg EXCEPT !.traceAll = TRUE]
WithIgnoreTrace(lg) == [lg EXCEPT !.ignoreTrace = TRUE]
WithRecordNotFoundError(lg) == [lg EXCEPT !.ignoreRecordNotFoundError = FALSE]
WithSlowThreshold(lg, threshold) == [lg EXCEPT !.slowThreshold = threshold]
WithErrorField(lg, field) == [lg EXCEPT !.errorField = field]
WithSourceField(lg, field) == [lg EXCEPT !.sourceField = field]
SetLogLevel(lg, lType, level) == [lg EXCEPT !.logLevel[lType] = level]
WithHandler(lg, handler) ==
    IF handler # NilHandler THEN [lg EXCEPT !.sloggerHandler = handler] ELSE lg
WithLogger(lg, handler) ==
    IF handler # NilHandler THEN [lg EXCEPT !.sloggerHandler = handler] ELSE lg
WithContextValue(lg, slogAttrName, contextKey) ==
    [lg EXCEPT !.contextKeys =
        [n \in DOMAIN @ \cup {slogAttrName} |->
            IF n = slogAttrName THEN contextKey ELSE @[n]]]

(* One turn of the loop over the options: option(&l). *)
Apply(lg, option) ==
    /\ pc = "options"
    /\ nopts < MaxOptions
    /\ l' = lg
    /\ nopts' = nopts + 1
    /\ call' = option
    /\ UNCHANGED <<pc, out>>

Option(name) == [NoCall EXCEPT !.op = name]

OptTraceAll ==
    Apply(WithTraceAll(l), Option("WithTraceAll")) /\ UNCHANGED registered
OptIgnoreTrace ==
    Apply(WithIgnoreTrace(l), Option("WithIgnoreTrace")) /\ UNCHANGED registered
OptRecordNotFoundError ==
    /\ Apply(WithRecordNotFoundError(l), Option("WithRecordNotFoundError"))
    /\ UNCHANGED registered
OptSlowThreshold ==
    /\ \E d \in 0..MaxThreshold :
          Apply(WithSlowThreshold(l, d), Option("WithSlowThreshold"))
    /\ UNCHANGED registered
OptErrorField ==
    /\ \E f \in {ErrorField, "err"} :
          Apply(WithErrorField(l, f), Option("WithErrorField"))
    /\ UNCHANGED registered
OptSourceField ==
    /\ \E f \in {SourceField, "source"} :
          Apply(WithSourceField(l, f), Option("WithSourceField"))
    /\ UNCHANGED registered
OptSetLogLevel ==
    /\ \E t \in LogTypes, lv \in LogLevels :
          Apply(SetLogLevel(l, t, lv),
                [Option("SetLogLevel") EXCEPT !.lType = t, !.level = lv])
    /\ UNCHANGED registered
OptHandler ==
    /\ \E h \in Handlers \cup {NilHandler} :
          Apply(WithHandler(l, h), [Option("WithHandler") EXCEPT !.handler = h])
    /\ UNCHANGED registered
OptLogger ==
    /\ \E h \in Handlers \cup {NilHandler} :
          Apply(WithLogger(l, h), [Option("WithLogger") EXCEPT !.handler = h])
    /\ UNCHANGED registered
OptContextValue ==
    \E n \in AttrNames, k \in CtxKeys :
        /\ Apply(WithContextValue(l, n, k), Option("WithContextValue"))
        /\ registered' = IF n \in DOMAIN l.contextKeys
                         THEN registered
                         ELSE Append(registered, n)

NewReturn_NoDefault ==
    /\ pc = "options"
    /\ l' = l
    /\ pc' = "ready"
    /\ nopts' = 0
    /\ call' = NoCall
    /\ UNCHANGED <<registered, out>>

NewReturn ==
    /\ pc = "options"
    /\ l' = IF l.sloggerHandler = NilHandler
            THEN [l EXCEPT !.sloggerHandler = DefaultHandler]
            ELSE l
    /\ pc' = "ready"
    /\ nopts' = 0
    /\ call' = NoCall
    /\ UNCHANGED <<registered, out>>

----------------------------------------------------------------------------
(* The calls.  Each is an operator from the logger and the arguments to    *)
(* what the call did; the actions below apply them.                        *)

(* The orders in which a range over contextKeys can visit the names: the   *)
(* iteration order of a Go map is not specified.                           *)
KeyOrders(lg) ==
    LET names == DOMAIN lg.contextKeys
        n == Cardinality(names)
    IN  {o \in [1..n -> names] : \A i, j \in 1..n : i # j => o[i] # o[j]}

RECURSIVE rangeContextKeys_NoNilCheck(_, _, _, _)
rangeContextKeys_NoNilCheck(lg, ctx, args, order) ==
    IF order = <<>> THEN args
    ELSE LET k == Head(order)
             value == Value(ctx, lg.contextKeys[k])
         IN  rangeContextKeys_NoNilCheck(lg, ctx,
                 Append(args, slogAny(k, value)), Tail(order))

RECURSIVE rangeContextKeys_Prepend(_, _, _, _)
rangeContextKeys_Prepend(lg, ctx, args, order) ==
    IF order = <<>> THEN args
    ELSE LET k == Head(order)
             value == Value(ctx, lg.contextKeys[k])
         IN  rangeContextKeys_Prepend(lg, ctx,
                 IF value # NoValue THEN <<slogAny(k, value)>> \o args ELSE args,
                 Tail(order))

RECURSIVE rangeContextKeys(_, _, _, _)
rangeContextKeys(lg, ctx, args, order) ==
    IF order = <<>> THEN args
    ELSE LET k == Head(order)
             value == Value(ctx, lg.contextKeys[k])
         IN  rangeContextKeys(lg, ctx,
                 IF value # NoValue THEN Append(args, slogAny(k, value)) ELSE args,
                 Tail(order))

(* ctx.Value on a nil context is a nil-pointer panic; it is reached only   *)
(* when the loop body runs, that is when a context key is registered.      *)
appendContextAttributes(lg, ctx, args, order) ==
    IF ctx.nil /\ order # <<>>
    THEN [fault |-> TRUE, args |-> args]
    ELSE [fault |-> FALSE, args |-> rangeContextKeys(lg, ctx, args, order)]

NewRecord(level, msg) == [level |-> level, message |-> msg, attrs |-> <<>>]
Add(r, attrs) == [r EXCEPT !.attrs = @ \o attrs]

log_NoEnabledCheck(lg, ctx0, level, format, args, order) ==
    LET ctx == IF ctx0.nil THEN Background ELSE ctx0
        r == NewRecord(level, Sprintf(format, args))
        a == appendContextAttributes(lg, ctx, <<>>, order)
    IN  IF a.fault
        THEN [handled |-> <<>>, fault |-> TRUE]
        ELSE [handled |-> <<Add(r, a.args)>>, fault |-> FALSE]

log_RawFormat(lg, ctx0, level, format, args, order) ==
    LET ctx == IF ctx0.nil THEN Background ELSE ctx0
    IN  IF ~Enabled(lg.sloggerHandler, level)
        THEN [handled |-> <<>>, fault |-> FALSE]
        ELSE LET r == NewRecord(level, format)
                 a == appendContextAttributes(lg, ctx, <<>>, order)
             IN  IF a.fault
                 THEN [handled |-> <<>>, fault |-> TRUE]
                 ELSE [handled |-> <<Add(r, a.args)>>, fault |-> FALSE]

log(lg, ctx0, level, format, args, order) ==
    LET ctx == IF ctx0.nil THEN Background ELSE ctx0
    IN  IF ~Enabled(lg.sloggerHandler, level)
        THEN [handled |-> <<>>, fault |-> FALSE]
        ELSE LET r == NewRecord(level, Sprintf(format, args))
                 a == appendContextAttributes(lg, ctx, <<>>, order)
             IN  IF a.fault
                 THEN [handled |-> <<>>, fault |-> TRUE]
                 ELSE [handled |-> <<Add(r, a.args)>>, fault |-> FALSE]

IsSilent_UnlessTraceAll(lg) == lg.ignoreTrace /\ ~lg.traceAll
IsSilent(lg) == lg.ignoreTrace

IsErrorCase_AfterTraceAll(lg, err) ==
    /\ err # NilErr
    /\ ~IsRecordNotFound(err) \/ ~lg.ignoreRecordNotFoundError
    /\ ~lg.traceAll
IsErrorCase_NoFilter(lg, err) == err # NilErr
IsErrorCase_ExactSentinel(lg, err) ==
    err # NilErr /\ (err # ErrRecordNotFound \/ ~lg.ignoreRecordNotFoundError)
IsErrorCase(lg, err) ==
    err # NilErr /\ (~IsRecordNotFound(err) \/ ~lg.ignoreRecordNotFoundError)
IsSlowCase_NotStrict(lg, elapsed) ==
    lg.slowThreshold # 0 /\ elapsed >= lg.slowThreshold
IsSlowCase(lg, elapsed) ==
    lg.slowThreshold # 0 /\ elapsed > lg.slowThreshold
IsDefaultCase(lg) == lg.traceAll

TraceCase_FcWhenEnabled(lg, ctx, branch, static, format, order1, order2) ==
    IF ~Enabled(lg.sloggerHandler, lg.logLevel[branch])
    THEN [branch |-> branch, fcCalls |-> 0, handled |-> <<>>, fault |-> FALSE]
    ELSE LET a == appendContextAttributes(lg, ctx, static, order1)
         IN  IF a.fault
             THEN [branch |-> branch, fcCalls |-> 1, handled |-> <<>>, fault |-> TRUE]
             ELSE LET r == log(lg, ctx, lg.logLevel[branch], format, a.args, order2)
                  IN  [branch |-> branch, fcCalls |-> 1,
                       handled |-> r.handled, fault |-> r.fault]

TraceCase_DefaultLevel(lg, ctx, branch, static, format, order1, order2) ==
    LET a == appendContextAttributes(lg, ctx, static, order1)
    IN  IF a.fault
        THEN [branch |-> branch, fcCalls |-> 1, handled |-> <<>>, fault |-> TRUE]
        ELSE LET r == log(lg, ctx, Defaults.logLevel[branch], format, a.args, order2)
             IN  [branch |-> branch, fcCalls |-> 1,
                  handled |-> r.handled, fault |-> r.fault]

(* One case of the switch in Trace: fc(), the attributes, then log.        *)
TraceCase(lg, ctx, branch, static, format, order1, order2) ==
    LET a == appendContextAttributes(lg, ctx, static, order1)
    IN  IF a.fault
        THEN [branch |-> branch, fcCalls |-> 1, handled |-> <<>>, fault |-> TRUE]
        ELSE LET r == log(lg, ctx, lg.logLevel[branch], format, a.args, order2)
             IN  [branch |-> branch, fcCalls |-> 1,
                  handled |-> r.handled, fault |-> r.fault]

Trace(lg, ctx, elapsed, err, order1, order2) ==
    IF IsSilent(lg) THEN NoOut
    ELSE IF IsErrorCase(lg, err)
    THEN TraceCase(lg, ctx, ErrorLogType,
             <<slogAny(lg.errorField, err),
               slogString(QueryField, FcSQL),
               slogDuration(DurationField, elapsed),
               slogInt64(RowsField, FcRows),
               slogString(lg.sourceField, FileWithLineNum)>>,
             ErrorText(err), order1, order2)
    ELSE IF IsSlowCase(lg, elapsed)
    THEN TraceCase(lg, ctx, SlowQueryLogType,
             <<slogBool(SlowQueryField, TRUE),
               slogString(QueryField, FcSQL),
               slogDuration(DurationField, elapsed),
               slogInt64(RowsField, FcRows),
               slogString(lg.sourceField, FileWithLineNum)>>,
             AsFormat(Sprintf(
                 <<Lit("slow sql query ["), VerbTok, Lit(" >= "), VerbTok, Lit("]")>>,
                 <<slogDuration("", elapsed), slogDuration("", lg.slowThreshold)>>)),
             order1, order2)
    ELSE IF IsDefaultCase(lg)
    THEN TraceCase(lg, ctx, DefaultLogType,
             <<slogString(QueryField, FcSQL),
               slogDuration(DurationField, elapsed),
               slogInt64(RowsField, FcRows),
               slogString(lg.sourceField, FileWithLineNum)>>,
             AsFormat(Sprintf(
                 <<Lit("SQL query executed ["), VerbTok, Lit("]")>>,
                 <<slogDuration("", elapsed)>>)),
             order1, order2)
    ELSE NoOut

LogMode_Silent(lg, level) ==
    IF level = 1 THEN [lg EXCEPT !.ignoreTrace = TRUE] ELSE lg
LogMode(lg, level) == lg

(* The format strings and arguments gorm passes to Info, Warn and Error.   *)
Formats == {<<Lit("awesome message")>>, <<Lit("connected to "), VerbTok>>}
ArgLists == {<<>>, <<slogString("", "db")>>}

Ready == pc = "ready"

DoTrace ==
    /\ Ready
    /\ \E ctx \in Contexts, elapsed \in 0..MaxElapsed, err \in Errors \cup {NilErr},
          order1 \in KeyOrders(l), order2 \in KeyOrders(l) :
          /\ call' = [NoCall EXCEPT !.op = "Trace", !.ctx = ctx,
                                    !.elapsed = elapsed, !.err = err]
          /\ out' = Trace(l, ctx, elapsed, err, order1, order2)
    /\ pc' = "called"
    /\ UNCHANGED <<l, nopts, registered>>

DoLog(op, level) ==
    /\ Ready
    /\ \E ctx \in Contexts, format \in Formats, args \in ArgLists,
          order \in KeyOrders(l) :
          /\ call' = [NoCall EXCEPT !.op = op, !.ctx = ctx, !.level = level,
                                    !.format = format, !.args = args]
          /\ out' = [NoOut EXCEPT
                        !.handled = log(l, ctx, level, format, args, order).handled,
                        !.fault = log(l, ctx, level, format, args, order).fault]
    /\ pc' = "called"
    /\ UNCHANGED <<l, nopts, registered>>

Info == DoLog("Info", LevelInfo)
Warn == DoLog("Warn", LevelWarn)
Error == DoLog("Error", LevelError)

DoLogMode ==
    /\ Ready
    /\ \E level \in 1..4 :
          /\ l' = LogMode(l, level)
          /\ call' = [NoCall EXCEPT !.op = "LogMode", !.level = level]
    /\ out' = NoOut
    /\ pc' = "called"
    /\ UNCHANGED <<nopts, registered>>

(* The call returns to gorm: the record and the attributes are dropped.    *)
Return ==
    /\ pc = "called"
    /\ pc' = "ready"
    /\ call' = NoCall
    /\ out' = NoOut
    /\ UNCHANGED <<l, nopts, registered>>

Next ==
    \/ OptTraceAll
    \/ OptIgnoreTrace
    \/ OptRecordNotFoundError
    \/ OptSlowThreshold
    \/ OptErrorField
    \/ OptSourceField
    \/ OptSetLogLevel
    \/ OptHandler
    \/ OptLogger
    \/ OptContextValue
    \/ NewReturn
    \/ DoTrace
    \/ Info
    \/ Warn
    \/ Error
    \/ DoLogMode
    \/ Return

Spec == Init /\ [][Next]_vars

TypeOK ==
    /\ pc \in {"options", "ready", "called"}
    /\ nopts \in 0..MaxOptions
    /\ out.fcCalls \in 0..1
    /\ Len(out.handled) <= 1

----------------------------------------------------------------------------
(* What the properties speak of. *)

TraceCalled == pc = "called" /\ call.op = "Trace"
LogCalled == pc = "called" /\ call.op \in {"Info", "Warn", "Error"}

(* The error qualifies for the error branch. *)
ErrQualifies ==
    call.err # NilErr /\ (~IsRecordNotFound(call.err) \/ ~l.ignoreRecordNotFoundError)
(* A slow threshold is set and the elapsed time exceeds it. *)
SlowExceeded == l.slowThreshold # 0 /\ call.elapsed > l.slowThreshold

(* The category a record belongs to, read off its message. *)
CategoryOf(r) ==
    IF r.message # <<>> /\ Head(r.message) = Lit("slow sql query [")
    THEN SlowQueryLogType
    ELSE IF r.message # <<>> /\ Head(r.message) = Lit("SQL query executed [")
    THEN DefaultLogType
    ELSE ErrorLogType

Records == {out.handled[i] : i \in 1..Len(out.handled)}

----------------------------------------------------------------------------
(* C1: with global trace suppression on, Trace never calls the lazy SQL    *)
(* provider and hands no record to the sink, whatever the error, the       *)
(* elapsed time, the slow threshold and the trace-all setting are.         *)
C1_SuppressedTraceIsSilent ==
    (TraceCalled /\ l.ignoreTrace) =>
        /\ out.fcCalls = 0
        /\ out.handled = <<>>
        /\ out.branch = "none"

C1_Witness ==
    /\ TraceCalled
    /\ l.ignoreTrace
    /\ l.traceAll
    /\ call.err = AwesomeError

(* C2: a Trace call takes at most one case of the switch, in the priority  *)
(* error, slow query, default, and hands at most one record to the sink;   *)
(* when the error qualifies, a record that reaches the sink is the error   *)
(* event, whatever trace-all and the slow threshold are.                   *)
C2_OneCategoryByPriority ==
    (TraceCalled /\ ~l.ignoreTrace) =>
        /\ Len(out.handled) <= 1
        /\ out.fcCalls <= 1
        /\ out.branch =
              IF ErrQualifies THEN ErrorLogType
              ELSE IF SlowExceeded THEN SlowQueryLogType
              ELSE IF l.traceAll THEN DefaultLogType
              ELSE "none"
        /\ \A r \in Records :
              /\ CategoryOf(r) = out.branch
              /\ r.level = l.logLevel[out.branch]

C2_Witness ==
    /\ TraceCalled
    /\ ErrQualifies
    /\ l.traceAll
    /\ SlowExceeded
    /\ Len(out.handled) = 1
    /\ CategoryOf(out.handled[1]) = ErrorLogType

(* C3: with suppression off and a qualifying error, Trace emits an error   *)
(* event at the level configured for the error category (the sink having   *)
(* that level enabled), whatever the elapsed time, the slow threshold and  *)
(* trace-all are.                                                          *)
C3_ErrorAlwaysEmitted ==
    (/\ TraceCalled
     /\ ~l.ignoreTrace
     /\ ErrQualifies
     /\ Enabled(l.sloggerHandler, l.logLevel[ErrorLogType])) =>
        /\ ~out.fault
        /\ Len(out.handled) = 1
        /\ out.handled[1].level = l.logLevel[ErrorLogType]
        /\ CategoryOf(out.handled[1]) = ErrorLogType

C5_SlowQueryEmitted ==
    (TraceCalled /\ ~l.ignoreTrace /\ ~ErrQualifies) =>
        /\ out.branch = SlowQueryLogType <=>
              (l.slowThreshold # 0 /\ call.elapsed > l.slowThreshold)
        /\ (/\ out.branch = SlowQueryLogType
            /\ Enabled(l.sloggerHandler, l.logLevel[SlowQueryLogType])) =>
              /\ ~out.fault
              /\ Len(out.handled) = 1
              /\ out.handled[1].level = l.logLevel[SlowQueryLogType]
              /\ CategoryOf(out.handled[1]) = SlowQueryLogType

(* C6: given no error, a slow threshold that is zero or not exceeded, and  *)
(* trace-all off, Trace emits no event and never calls the lazy SQL        *)
(* provider.                                                               *)
C6_NothingToTrace ==
    (/\ TraceCalled
     /\ call.err = NilErr
     /\ l.slowThreshold = 0 \/ call.elapsed <= l.slowThreshold
     /\ ~l.traceAll) =>
        /\ out.handled = <<>>
        /\ out.fcCalls = 0
        /\ ~out.fault

C6_Witness ==
    /\ TraceCalled
    /\ ~l.ignoreTrace
    /\ call.err = NilErr
    /\ l.slowThreshold # 0
    /\ call.elapsed = l.slowThreshold
    /\ ~l.traceAll
    /\ DOMAIN l.contextKeys # {}

(* C7: given no error, trace-all on, suppression off and an elapsed time   *)
(* that exceeds no configured threshold, Trace emits one default event at  *)
(* the level configured for the default category (the sink having that     *)
(* level enabled).                                                         *)
C7_DefaultEmitted ==
    (/\ TraceCalled
     /\ ~l.ignoreTrace
     /\ call.err = NilErr
     /\ l.traceAll
     /\ ~SlowExceeded
     /\ Enabled(l.sloggerHandler, l.logLevel[DefaultLogType])) =>
        /\ ~out.fault
        /\ Len(out.handled) = 1
        /\ out.handled[1].level = l.logLevel[DefaultLogType]
        /\ CategoryOf(out.handled[1]) = DefaultLogType

(* C8: no entry point hands the sink a record at a level the sink reports  *)
(* disabled: Info, Warn and Error build no record then, and Trace          *)
(* produces nothing when the level of the category it selected is          *)
(* disabled in the sink.                                                   *)
C8_DisabledLevelNeverHandled ==
    /\ LogCalled =>
          /\ ~Enabled(l.sloggerHandler, call.level) => out.handled = <<>>
          /\ \A r \in Records : r.level = call.level
    /\ TraceCalled =>
          /\ \A t \in LogTypes :
                (out.branch = t /\ ~Enabled(l.sloggerHandler, l.logLevel[t]))
                    => out.handled = <<>>
          /\ \A r \in Records : Enabled(l.sloggerHandler, r.level)

C8_Witness ==
    /\ TraceCalled
    /\ out.branch = SlowQueryLogType
    /\ ~Enabled(l.sloggerHandler, l.logLevel[SlowQueryLogType])
    /\ Enabled(l.sloggerHandler, l.logLevel[ErrorLogType])
    /\ ~out.fault

(* The attributes of record r that are named name. *)
AttrsNamed(r, name) == {i \in 1..Len(r.attrs) : r.attrs[i].key = name}

(* C9: for every registered context key (name, key) and every record that  *)
(* Trace, Info, Warn or Error hands to the sink: if the context carries a  *)
(* non-nil value under key, the record has exactly one attribute named     *)
(* name and it holds that value; if the key is absent the record has no    *)
(* attribute of that name, and a call with such a context does not fault.  *)
C9_ContextValueBecomesAttribute ==
    (TraceCalled \/ LogCalled) =>
        /\ \A r \in Records : \A name \in DOMAIN l.contextKeys :
              LET value == Value(call.ctx, l.contextKeys[name])
              IN  IF value # NoValue
                  THEN /\ Cardinality(AttrsNamed(r, name)) = 1
                       /\ \A i \in AttrsNamed(r, name) :
                             r.attrs[i] = slogAny(name, value)
                  ELSE AttrsNamed(r, name) = {}
        /\ ~call.ctx.nil => ~out.fault

C9_Witness ==
    /\ TraceCalled
    /\ ~call.ctx.nil
    /\ Len(out.handled) = 1
    /\ \E name \in DOMAIN l.contextKeys :
          /\ Value(call.ctx, l.contextKeys[name]) = "ctxVal2"
          /\ Cardinality(AttrsNamed(out.handled[1], name)) = 1
    /\ \E name \in DOMAIN l.contextKeys :
          /\ Value(call.ctx, l.contextKeys[name]) = NoValue
          /\ AttrsNamed(out.handled[1], name) = {}

(* C10: a nil context is an empty context for Trace and for Info, Warn and *)
(* Error: with any configuration, registered context keys included, the    *)
(* call with a nil context does not fault and does what the same call with *)
(* an empty context does.                                                  *)
C10_NilContextIsEmptyContext ==
    (pc = "called" /\ call.ctx.nil) =>
        /\ ~out.fault
        /\ TraceCalled =>
              \E o1 \in KeyOrders(l), o2 \in KeyOrders(l) :
                  out = Trace(l, Background, call.elapsed, call.err, o1, o2)
        /\ LogCalled =>
              \E o \in KeyOrders(l) :
                  out.handled =
                      log(l, Background, call.level, call.format, call.args, o).handled

----------------------------------------------------------------------------
(* A turn of New's loop that applied the option named name. *)
Applied(name) == pc = "options" /\ nopts' = nopts + 1 /\ call'.op = name

(* C11: SetLogLevel on one category sets the level of that category and    *)
(* leaves the levels of the other two as they were, and every event Trace  *)
(* emits has the level then configured for its category.                   *)
C11_SetLogLevelOverridesOneCategory ==
    /\ [][Applied("SetLogLevel") =>
            /\ l'.logLevel[call'.lType] = call'.level
            /\ \A u \in LogTypes \ {call'.lType} : l'.logLevel[u] = l.logLevel[u]]_vars
    /\ [](TraceCalled =>
            \A r \in Records, t \in LogTypes :
                CategoryOf(r) = t => r.level = l.logLevel[t])

C11_Witness ==
    /\ TraceCalled
    /\ l.logLevel[SlowQueryLogType] = CustomLogLevel
    /\ l.logLevel[ErrorLogType] = LevelError
    /\ l.logLevel[DefaultLogType] = LevelInfo
    /\ Len(out.handled) = 1
    /\ CategoryOf(out.handled[1]) = SlowQueryLogType
    /\ out.handled[1].level = CustomLogLevel

(* C12: the logger New returns has a sink: WithLogger(nil) and             *)
(* WithHandler(nil) keep the sink configured before them, and a logger     *)
(* left without a sink by its options gets the default one.                *)
C12_SinkNeverNil ==
    /\ [][(/\ Applied("WithHandler") \/ Applied("WithLogger")
           /\ call'.handler = NilHandler) =>
              l'.sloggerHandler = l.sloggerHandler]_vars
    /\ [][(pc = "options" /\ pc' = "ready") =>
              l'.sloggerHandler = IF l.sloggerHandler = NilHandler
                                  THEN DefaultHandler
                                  ELSE l.sloggerHandler]_vars
    /\ [](pc # "options" => l.sloggerHandler # NilHandler)

C12_Witness ==
    /\ pc = "options"
    /\ call.op = "WithLogger"
    /\ call.handler = NilHandler
    /\ l.sloggerHandler = DummyHandler

(* The attributes the registered context keys give for context ctx. *)
ContextAttrs(ctx) ==
    {slogAny(n, Value(ctx, l.contextKeys[n])) :
        n \in {m \in DOMAIN l.contextKeys : Value(ctx, l.contextKeys[m]) # NoValue}}

AttrSet(r) == {r.attrs[i] : i \in 1..Len(r.attrs)}

(* C13: when the sink has the level enabled, Info, Warn and Error each     *)
(* hand exactly one record to the sink, at level Info, Warn and Error      *)
(* respectively, whose message is the format applied to the arguments and  *)
(* whose attributes are those derived from the context.                    *)
C13_LogHandsOneRecord ==
    (LogCalled /\ Enabled(l.sloggerHandler, call.level)) =>
        /\ ~out.fault
        /\ Len(out.handled) = 1
        /\ LET r == out.handled[1]
           IN  /\ r.level = CASE call.op = "Info" -> LevelInfo
                              [] call.op = "Warn" -> LevelWarn
                              [] OTHER -> LevelError
               /\ r.message = Sprintf(call.format, call.args)
               /\ (call.format = <<Lit("connected to "), VerbTok>>
                      /\ call.args = <<slogString("", "db")>>) =>
                     r.message = <<Lit("connected to "), Filled(slogString("", "db"))>>
               /\ AttrSet(r) = ContextAttrs(call.ctx)
               /\ Len(r.attrs) = Cardinality(ContextAttrs(call.ctx))

C13_Witness ==
    /\ LogCalled
    /\ call.op = "Warn"
    /\ call.format = <<Lit("connected to "), VerbTok>>
    /\ call.args = <<slogString("", "db")>>
    /\ Len(out.handled) = 1
    /\ out.handled[1].level = LevelWarn
    /\ out.handled[1].attrs = <<slogAny("attrKey", "ctxVal")>>

----------------------------------------------------------------------------
(* The message the case taken by the last Trace call is to log. *)
BranchMessage ==
    CASE out.branch = ErrorLogType -> ErrorText(call.err)
      [] out.branch = SlowQueryLogType ->
            <<Lit("slow sql query ["), Lit(ToString(call.elapsed) \o "s"),
              Lit(" >= "), Lit(ToString(l.slowThreshold) \o "s"), Lit("]")>>
      [] out.branch = DefaultLogType ->
            <<Lit("SQL query executed ["), Lit(ToString(call.elapsed) \o "s"),
              Lit("]")>>
      [] OTHER -> <<>>

(* The static attributes of the case taken by the last Trace call. *)
BranchAttrs ==
    (CASE out.branch = ErrorLogType -> {slogAny(l.errorField, call.err)}
       [] out.branch = SlowQueryLogType -> {slogBool(SlowQueryField, TRUE)}
       [] OTHER -> {})
    \cup {slogString(QueryField, FcSQL),
          slogDuration(DurationField, call.elapsed),
          slogInt64(RowsField, FcRows),
          slogString(l.sourceField, FileWithLineNum)}

(* C15: the message of the record Trace emits is the message of the case   *)
(* taken and nothing more: the error's text, "slow sql query [<elapsed> >= *)
(* <threshold>]" or "SQL query executed [<elapsed>]".                      *)
C15_MessageIsBranchMessage ==
    TraceCalled => \A r \in Records : r.message = BranchMessage

(* C16: every record Trace hands to the sink carries the static attributes *)
(* of the case taken: query, duration, rows and call site, plus the error  *)
(* in the error case and slow_query=true in the slow-query case.           *)
C16_RecordCarriesStaticAttrs ==
    TraceCalled => \A r \in Records : BranchAttrs \subseteq AttrSet(r)

(* C17: a Trace call invokes the lazy SQL provider at most once, and only  *)
(* if the event is handed to the sink; not for an event dropped because    *)
(* the sink has the level of its category disabled.                        *)
C17_ProviderOnlyWhenEmitted ==
    TraceCalled =>
        /\ out.fcCalls <= 1
        /\ out.fcCalls = 1 => Len(out.handled) = 1

(* C17, amended: a Trace call invokes the lazy SQL provider at most once,  *)
(* and exactly when it takes a case of the switch (suppression off and the *)
(* error, slow-query or trace-all case matches); the provider runs before  *)
(* the sink is asked, so it is invoked also for an event that is then      *)
(* dropped because the sink has the level disabled, and no event is        *)
(* emitted without it.                                                     *)
C17_ProviderWhenCaseTaken ==
    TraceCalled =>
        /\ out.fcCalls <= 1
        /\ out.fcCalls = 1 <=>
              (~l.ignoreTrace /\ (ErrQualifies \/ SlowExceeded \/ l.traceAll))
        /\ out.handled # <<>> => out.fcCalls = 1

C17_Witness ==
    /\ TraceCalled
    /\ out.branch = DefaultLogType
    /\ ~Enabled(l.sloggerHandler, l.logLevel[DefaultLogType])
    /\ out.fcCalls = 1
    /\ out.handled = <<>>
    /\ ~out.fault

(* C18: a filtered record-not-found error is as no error: with the ignore  *)
(* filter on, Trace called with the sentinel does what Trace called with a *)
(* nil error does for the same logger, elapsed time and context: the same  *)
(* case, level, message and attributes, or nothing in both.                *)
C18_FilteredSentinelAsNoError ==
    (TraceCalled /\ IsRecordNotFound(call.err) /\ l.ignoreRecordNotFoundError) =>
        /\ out.branch # ErrorLogType
        /\ \E o1 \in KeyOrders(l), o2 \in KeyOrders(l) :
              out = Trace(l, call.ctx, call.elapsed, NilErr, o1, o2)

C18_Witness ==
    /\ TraceCalled
    /\ call.err = WrappedNotFound
    /\ l.ignoreRecordNotFoundError
    /\ Len(out.handled) = 1
    /\ CategoryOf(out.handled[1]) = SlowQueryLogType
    /\ out.handled[1].attrs # <<>>

----------------------------------------------------------------------------
IsContextAttr(a) == a.key \in DOMAIN l.contextKeys

(* The context-derived attributes in the order the names were registered. *)
RECURSIVE AttrsInOrder(_, _)
AttrsInOrder(names, ctx) ==
    IF names = <<>> THEN <<>>
    ELSE (IF Value(ctx, l.contextKeys[Head(names)]) # NoValue
          THEN <<slogAny(Head(names), Value(ctx, l.contextKeys[Head(names)]))>>
          ELSE <<>>)
         \o AttrsInOrder(Tail(names), ctx)

(* The arguments Sprintf wrote into a message, in their order. *)
RECURSIVE MsgArgs(_)
MsgArgs(msg) ==
    IF msg = <<>> THEN <<>>
    ELSE (IF Head(msg).arg = NoArg THEN <<>> ELSE <<Head(msg).arg>>)
         \o MsgArgs(Tail(msg))

(* The static attributes of the case taken, in the order Trace lists them. *)
BranchAttrSeq ==
    (CASE out.branch = ErrorLogType -> <<slogAny(l.errorField, call.err)>>
       [] out.branch = SlowQueryLogType -> <<slogBool(SlowQueryField, TRUE)>>
       [] OTHER -> <<>>)
    \o <<slogString(QueryField, FcSQL),
         slogDuration(DurationField, call.elapsed),
         slogInt64(RowsField, FcRows),
         slogString(l.sourceField, FileWithLineNum)>>

(* C19: in every emitted record the static attributes come first and the   *)
(* context-derived attributes follow in the order in which their keys were *)
(* registered, the same on every emission.                                 *)
C19_AttrsInRegistrationOrder ==
    (TraceCalled \/ LogCalled) =>
        \A r \in Records :
            /\ SelectSeq(r.attrs, IsContextAttr) = AttrsInOrder(registered, call.ctx)
            /\ \A i, j \in 1..Len(r.attrs) :
                  (IsContextAttr(r.attrs[i]) /\ ~IsContextAttr(r.attrs[j])) => j < i

(* C19, amended: in every attribute list Trace builds the static           *)
(* attributes of the case come first and the context-derived attributes    *)
(* follow them; the context-derived attributes, there and in every emitted *)
(* record, are those of the registered keys the context carries, each      *)
(* once, in the iteration order of the contextKeys map, which is not       *)
(* specified: it need not be the registration order nor the same on every  *)
(* emission.                                                               *)
C19_StaticFirstThenContextAttrs ==
    /\ (TraceCalled \/ LogCalled) =>
          \A r \in Records :
              /\ AttrSet(r) = ContextAttrs(call.ctx)
              /\ Len(r.attrs) = Cardinality(ContextAttrs(call.ctx))
    /\ TraceCalled =>
          \A r \in Records :
              LET args == MsgArgs(r.message)
                  n == Len(BranchAttrSeq)
              IN  /\ Len(args) = n + Cardinality(ContextAttrs(call.ctx))
                  /\ SubSeq(args, 1, n) = BranchAttrSeq
                  /\ {args[i] : i \in (n + 1)..Len(args)} = ContextAttrs(call.ctx)

C19_Witness ==
    /\ TraceCalled
    /\ registered = <<"attrKey", "attrKey2">>
    /\ Len(out.handled) = 1
    /\ Len(out.handled[1].attrs) = 2
    /\ out.handled[1].attrs[1].key = "attrKey2"
    /\ MsgArgs(out.handled[1].message)[1] = slogBool(SlowQueryField, TRUE)

====
